---- MODULE Spec2Model ----
(***************************************************************************)
(* Model of finite_difference.py: three finite difference schemes for      *)
(* x'(t) = lambda x(t), x(0) = x0, on the grid t_i = i*h, h = T/N.          *)
(*                                                                         *)
(* Numbers.  The script computes in binary floating point.  The model      *)
(* computes in exact arithmetic extended by the IEEE non-finite values:    *)
(*   - a scalar is a pair <<n, d>>: the rational n/d in lowest terms with  *)
(*     d > 0, or <<1,0>> = +inf, <<-1,0>> = -inf, <<0,0>> = nan;            *)
(*   - an entry of x_exact / x_central is a record [a, b, e] standing for  *)
(*     a + b*exp(e) with a, b, e rational (exp(e) is irrational for every  *)
(*     rational e # 0, so the representation is unique once e = 0 and      *)
(*     b = 0 are folded into a).                                           *)
(* Rounding error of the floating point operations is not modelled.        *)
(*                                                                         *)
(* Arrays are sequences: index k of a numpy array is position k+1.         *)
(***************************************************************************)
EXTENDS Integers, Sequences, FiniteSets, TLC

VARIABLES lam, T, x0, N,
          h, t, x_exact, x_backward, x_forward, x_central,
          forward_stable, i, pc,
          wr_backward, wr_forward, wr_central,
          rd_backward, rd_forward, rd_central

vars == <<lam, T, x0, N, h, t, x_exact, x_backward, x_forward, x_central,
          forward_stable, i, pc, wr_backward, wr_forward, wr_central,
          rd_backward, rd_forward, rd_central>>

inputs == <<lam, T, x0, N>>

(* History of the run: wr_X lists the indices of X in the order they were   *)
(* assigned, rd_X lists, per loop iteration, the indices of X it read.      *)
logs == <<wr_backward, wr_forward, wr_central, rd_backward, rd_forward, rd_central>>

----------------------------------------------------------------------------
(* Bounds of the model and constants of the program *)

MaxLam == 3

MaxTSteps == 1

MaxX0 == 1

MaxN == 10

SliderMin == 5

SliderStep == 5

SliderMax == 200

DefaultT == 5

----------------------------------------------------------------------------
(* Scalar arithmetic *)

Abs(n) == IF n < 0 THEN -n ELSE n

Sgn(n) == IF n < 0 THEN -1 ELSE IF n > 0 THEN 1 ELSE 0

RECURSIVE GCD(_, _)
GCD(m, n) == IF n = 0 THEN m ELSE GCD(n, m % n)

RNorm(n, d) ==
  IF d = 0 THEN <<Sgn(n), 0>>
  ELSE LET s == IF d < 0 THEN -1 ELSE 1
           g == GCD(Abs(n), Abs(d))
       IN <<(s * n) \div g, (s * d) \div g>>

Zero == <<0, 1>>

One == <<1, 1>>

NaN == <<0, 0>>

FromInt(k) == <<k, 1>>

IsFinite(x) == x[2] # 0

IsNaN(x) == x = NaN

RNeg(x) == <<-x[1], x[2]>>

RAbs(x) == <<Abs(x[1]), x[2]>>

RSign(x) == Sgn(x[1])

RAdd(x, y) ==
  IF IsFinite(x) /\ IsFinite(y)
  THEN LET g == GCD(x[2], y[2])
       IN RNorm(x[1] * (y[2] \div g) + y[1] * (x[2] \div g), (x[2] \div g) * y[2])
  ELSE IF IsNaN(x) \/ IsNaN(y) THEN NaN
  ELSE IF ~IsFinite(x) /\ ~IsFinite(y) THEN (IF x = y THEN x ELSE NaN)
  ELSE IF IsFinite(x) THEN y ELSE x

RSub(x, y) == RAdd(x, RNeg(y))

RMul(x, y) ==
  IF IsFinite(x) /\ IsFinite(y)
  THEN LET g1 == GCD(Abs(x[1]), y[2])
           g2 == GCD(Abs(y[1]), x[2])
       IN RNorm((x[1] \div g1) * (y[1] \div g2), (x[2] \div g2) * (y[2] \div g1))
  ELSE IF IsNaN(x) \/ IsNaN(y) THEN NaN
  ELSE <<Sgn(x[1]) * Sgn(y[1]), 0>>

RInv(x) == IF x[1] < 0 THEN <<-x[2], -x[1]>> ELSE <<x[2], x[1]>>

RDiv(x, y) == RMul(x, RInv(y))

REq(x, y) == ~IsNaN(x) /\ ~IsNaN(y) /\ x = y

RLt(x, y) ==
  /\ ~IsNaN(x) /\ ~IsNaN(y)
  /\ x # y
  /\ IF IsFinite(x) /\ IsFinite(y) THEN RSign(RSub(x, y)) < 0
     ELSE IF ~IsFinite(x) THEN x[1] < 0
     ELSE y[1] > 0

RLe(x, y) == REq(x, y) \/ RLt(x, y)

----------------------------------------------------------------------------
(* Values a + b*exp(e) *)

VNorm(a, b, e) ==
  IF b = Zero THEN [a |-> a, b |-> Zero, e |-> Zero]
  ELSE IF e = Zero THEN [a |-> RAdd(a, b), b |-> Zero, e |-> Zero]
  ELSE [a |-> a, b |-> b, e |-> e]

VOfRat(q) == VNorm(q, Zero, Zero)

NpExp(q) == VNorm(Zero, One, q)

VScale(q, v) == VNorm(RMul(q, v.a), RMul(q, v.b), v.e)

VAdd(v, w) ==
  IF w.b = Zero THEN VNorm(RAdd(v.a, w.a), v.b, v.e)
  ELSE IF v.b = Zero THEN VNorm(RAdd(v.a, w.a), w.b, w.e)
  ELSE IF v.e = w.e THEN VNorm(RAdd(v.a, w.a), RAdd(v.b, w.b), v.e)
  ELSE "sum of two different exponentials"

VNeg(v) == VScale(FromInt(-1), v)

----------------------------------------------------------------------------
(* numpy arrays *)

At(arr, k) == arr[k + 1]

Put(arr, k, v) == [arr EXCEPT ![k + 1] = v]

NpZeros(n) == [k \in 1..n |-> Zero]

NpZerosV(n) == [k \in 1..n |-> VOfRat(Zero)]

Linspace(stop, num) ==
  [k \in 1..num |-> IF k = num THEN stop
                    ELSE RMul(FromInt(k - 1), RDiv(stop, FromInt(num - 1)))]

----------------------------------------------------------------------------
(* The expressions of the script *)

StepSize(T_, N_) == RDiv(T_, FromInt(N_))

ExactAt(x0_, lam_, ti) == VScale(x0_, NpExp(RMul(lam_, ti)))

BackwardStep_plus(prev, h_, lam_) == RDiv(prev, RAdd(One, RMul(h_, lam_)))

BackwardStep(prev, h_, lam_) == RDiv(prev, RSub(One, RMul(h_, lam_)))

ForwardStep_minus(cur, h_, lam_) == RMul(cur, RSub(One, RMul(h_, lam_)))

ForwardStep_nolam(cur, h_, lam_) == RMul(cur, RAdd(One, h_))

ForwardStep(cur, h_, lam_) == RMul(cur, RAdd(One, RMul(h_, lam_)))

CentralStep_half(prev, cur, h_, lam_) ==
  VAdd(prev, VScale(RMul(h_, lam_), cur))

CentralStep(prev, cur, h_, lam_) ==
  VAdd(prev, VScale(RMul(RMul(FromInt(2), h_), lam_), cur))

ForwardStable_le(h_, lam_) == RLe(RAbs(RAdd(One, RMul(h_, lam_))), One)

ForwardStable(h_, lam_) == RLt(RAbs(RAdd(One, RMul(h_, lam_))), One)

BackwardTarget(k) == k

BackwardSource(k) == k - 1

ForwardSource(k) == k

CentralSourcePrev(k) == k - 1

CentralSourceCur(k) == k

ForwardTarget_same(k) == k

ForwardTarget(k) == k + 1

CentralTarget(k) == k + 1

ArrayLen_short(N_) == N_

ArrayLen(N_) == N_ + 1

----------------------------------------------------------------------------
(* Inputs supplied by the sidebar widgets.  lam, T and x0 are number       *)
(* inputs without a minimum or maximum: the model takes the integers up    *)
(* to MaxLam and MaxX0 in magnitude and the multiples -1..MaxTSteps of the *)
(* default T.  N comes from a slider: SliderMin, SliderMin + SliderStep,   *)
(* ..., here up to MaxN.                                                   *)

LamInputs == {FromInt(k) : k \in -MaxLam..MaxLam}

TInputs == {FromInt(DefaultT * k) : k \in -1..MaxTSteps}

X0Inputs == {FromInt(k) : k \in -MaxX0..MaxX0}

NInputs ==
  {n \in SliderMin..SliderMax : n <= MaxN /\ (n - SliderMin) % SliderStep = 0}

Init ==
  /\ lam \in LamInputs
  /\ T \in TInputs
  /\ x0 \in X0Inputs
  /\ N \in NInputs
  /\ h = <<>>
  /\ t = <<>>
  /\ x_exact = <<>>
  /\ x_backward = <<>>
  /\ x_forward = <<>>
  /\ x_central = <<>>
  /\ forward_stable = FALSE
  /\ i = 0
  /\ pc = "grid"
  /\ wr_backward = <<>>
  /\ wr_forward = <<>>
  /\ wr_central = <<>>
  /\ rd_backward = <<>>
  /\ rd_forward = <<>>
  /\ rd_central = <<>>

----------------------------------------------------------------------------
(* The script, statement by statement *)

Grid ==
  /\ pc = "grid"
  /\ h' = StepSize(T, N)
  /\ t' = Linspace(T, ArrayLen(N))
  /\ pc' = "exact"
  /\ UNCHANGED <<inputs, x_exact, x_backward, x_forward, x_central,
                 forward_stable, i, logs>>

Exact ==
  /\ pc = "exact"
  /\ x_exact' = [k \in 1..Len(t) |-> ExactAt(x0, lam, t[k])]
  /\ pc' = "backward_init"
  /\ UNCHANGED <<inputs, h, t, x_backward, x_forward, x_central,
                 forward_stable, i, logs>>

BackwardInit ==
  /\ pc = "backward_init"
  /\ x_backward' = Put(NpZeros(ArrayLen(N)), 0, x0)
  /\ wr_backward' = <<0>>
  /\ i' = 1
  /\ pc' = "backward_loop"
  /\ UNCHANGED <<inputs, h, t, x_exact, x_forward, x_central,
                 forward_stable, wr_forward, wr_central,
                 rd_backward, rd_forward, rd_central>>

BackwardLoop ==
  /\ pc = "backward_loop"
  /\ i < N + 1
  /\ x_backward' = Put(x_backward, BackwardTarget(i),
                       BackwardStep(At(x_backward, BackwardSource(i)), h, lam))
  /\ wr_backward' = Append(wr_backward, BackwardTarget(i))
  /\ rd_backward' = Append(rd_backward, {BackwardSource(i)})
  /\ i' = i + 1
  /\ UNCHANGED <<inputs, h, t, x_exact, x_forward, x_central,
                 forward_stable, pc, wr_forward, wr_central,
                 rd_forward, rd_central>>

BackwardExit ==
  /\ pc = "backward_loop"
  /\ ~(i < N + 1)
  /\ pc' = "forward_init"
  /\ UNCHANGED <<inputs, h, t, x_exact, x_backward, x_forward, x_central,
                 forward_stable, i, logs>>

ForwardInit ==
  /\ pc = "forward_init"
  /\ x_forward' = Put(NpZeros(ArrayLen(N)), 0, x0)
  /\ wr_forward' = <<0>>
  /\ i' = 0
  /\ pc' = "forward_loop"
  /\ UNCHANGED <<inputs, h, t, x_exact, x_backward, x_central,
                 forward_stable, wr_backward, wr_central,
                 rd_backward, rd_forward, rd_central>>

ForwardLoop ==
  /\ pc = "forward_loop"
  /\ i < N
  /\ x_forward' = Put(x_forward, ForwardTarget(i),
                      ForwardStep(At(x_forward, ForwardSource(i)), h, lam))
  /\ wr_forward' = Append(wr_forward, ForwardTarget(i))
  /\ rd_forward' = Append(rd_forward, {ForwardSource(i)})
  /\ i' = i + 1
  /\ UNCHANGED <<inputs, h, t, x_exact, x_backward, x_central,
                 forward_stable, pc, wr_backward, wr_central,
                 rd_backward, rd_central>>

ForwardExit ==
  /\ pc = "forward_loop"
  /\ ~(i < N)
  /\ pc' = "central_init"
  /\ UNCHANGED <<inputs, h, t, x_exact, x_backward, x_forward, x_central,
                 forward_stable, i, logs>>

CentralInit ==
  /\ pc = "central_init"
  /\ x_central' = Put(Put(NpZerosV(ArrayLen(N)), 0, VOfRat(x0)), 1, At(x_exact, 1))
  /\ wr_central' = <<0, 1>>
  /\ i' = 1
  /\ pc' = "central_loop"
  /\ UNCHANGED <<inputs, h, t, x_exact, x_backward, x_forward,
                 forward_stable, wr_backward, wr_forward,
                 rd_backward, rd_forward, rd_central>>

CentralLoop ==
  /\ pc = "central_loop"
  /\ i < N
  /\ x_central' = Put(x_central, CentralTarget(i),
                      CentralStep(At(x_central, CentralSourcePrev(i)),
                                  At(x_central, CentralSourceCur(i)), h, lam))
  /\ wr_central' = Append(wr_central, CentralTarget(i))
  /\ rd_central' = Append(rd_central, {CentralSourcePrev(i), CentralSourceCur(i)})
  /\ i' = i + 1
  /\ UNCHANGED <<inputs, h, t, x_exact, x_backward, x_forward,
                 forward_stable, pc, wr_backward, wr_forward,
                 rd_backward, rd_forward>>

CentralExit ==
  /\ pc = "central_loop"
  /\ ~(i < N)
  /\ pc' = "diagnostics"
  /\ UNCHANGED <<inputs, h, t, x_exact, x_backward, x_forward, x_central,
                 forward_stable, i, logs>>

Diagnostics ==
  /\ pc = "diagnostics"
  /\ forward_stable' = ForwardStable(h, lam)
  /\ pc' = "done"
  /\ UNCHANGED <<inputs, h, t, x_exact, x_backward, x_forward, x_central,
                 i, logs>>

Next ==
  \/ Grid
  \/ Exact
  \/ BackwardInit
  \/ BackwardLoop
  \/ BackwardExit
  \/ ForwardInit
  \/ ForwardLoop
  \/ ForwardExit
  \/ CentralInit
  \/ CentralLoop
  \/ CentralExit
  \/ Diagnostics

Spec == Init /\ [][Next]_vars

----------------------------------------------------------------------------
(* Properties *)

RECURSIVE RPow(_, _)
RPow(x, k) == IF k = 0 THEN One ELSE RMul(x, RPow(x, k - 1))

Range(s) == {s[k] : k \in 1..Len(s)}

Positive(x) == RLt(Zero, x)

Negative(x) == RLt(x, Zero)

(* the quantities of the claims, computed from the inputs alone *)
hIn == RDiv(T, FromInt(N))

GrowthIn == RAdd(One, RMul(hIn, lam))

DenomIn == RSub(One, RMul(hIn, lam))

TwoHLamIn == RMul(FromInt(2), RMul(hIn, lam))

BackwardFinished ==
  pc \in {"forward_init", "forward_loop", "central_init", "central_loop",
          "diagnostics", "done"}

ForwardFinished == pc \in {"central_init", "central_loop", "diagnostics", "done"}

CentralFinished == pc \in {"diagnostics", "done"}

(* C1: for T > 0 and N >= 1, after a run each of x_exact, x_backward,      *)
(* x_forward and x_central has exactly N+1 entries, indexed 0..N, and      *)
(* entry 0 of each of the four equals x0.                                  *)
C1_LengthAndSeed ==
  (pc = "done" /\ Positive(T) /\ N >= 1) =>
     /\ DOMAIN x_exact = 1..(N + 1)
     /\ DOMAIN x_backward = 1..(N + 1)
     /\ DOMAIN x_forward = 1..(N + 1)
     /\ DOMAIN x_central = 1..(N + 1)
     /\ At(x_exact, 0) = [a |-> x0, b |-> Zero, e |-> Zero]
     /\ At(x_central, 0) = [a |-> x0, b |-> Zero, e |-> Zero]
     /\ At(x_backward, 0) = x0
     /\ At(x_forward, 0) = x0

C1_Witness ==
  /\ pc = "done" /\ Positive(T) /\ N = 10
  /\ x0 # Zero /\ lam # Zero
  /\ At(x_exact, N).b # Zero

(* C2: the finished forward trajectory starts at x0, each entry is the     *)
(* previous one times (1 + h*lambda), and entry k is x0*(1 + h*lambda)^k.  *)
C2_ForwardRecurrence ==
  ForwardFinished =>
     /\ At(x_forward, 0) = x0
     /\ \A k \in 0..(N - 1) :
           REq(At(x_forward, k + 1), RMul(At(x_forward, k), GrowthIn))
     /\ \A k \in 0..N : REq(At(x_forward, k), RMul(x0, RPow(GrowthIn, k)))

C2_Witness ==
  /\ ForwardFinished /\ Positive(T)
  /\ x0 # Zero
  /\ GrowthIn[2] > 1
  /\ At(x_forward, N) \notin {Zero, x0, RNeg(x0)}

(* C4: the finished central trajectory has x_central[0] = x0, x_central[1] *)
(* = x_exact[1] = x0*exp(lambda*h), and for every k in 1..N-1               *)
(* x_central[k+1] - 2*h*lambda*x_central[k] - x_central[k-1] = 0.           *)
C4_CentralRecurrence ==
  CentralFinished =>
     /\ At(x_central, 0) = VOfRat(x0)
     /\ At(x_central, 1) = At(x_exact, 1)
     /\ At(x_central, 1) = VScale(x0, VNorm(Zero, One, RMul(lam, hIn)))
     /\ \A k \in 1..(N - 1) :
           VAdd(VAdd(At(x_central, k + 1),
                     VNeg(VScale(TwoHLamIn, At(x_central, k)))),
                VNeg(At(x_central, k - 1))) = VOfRat(Zero)

C4_Witness ==
  /\ CentralFinished /\ Positive(T)
  /\ At(x_central, N).a # Zero
  /\ At(x_central, N).b # Zero
  /\ At(x_central, N - 1).b # Zero
  /\ TwoHLamIn \notin {Zero, One, FromInt(2)}

(* C7: forward_stable is true exactly when |1 + h*lambda| < 1 (the         *)
(* boundary |1 + h*lambda| = 1 counts as not stable); lambda=-1, T=5, N=5   *)
(* gives h = 1, factor 0, stable; lambda=-3, T=5, N=5 gives h = 1, factor   *)
(* 2, not stable; and computing the verdict leaves x_backward, x_forward    *)
(* and x_central unchanged.                                                *)
C7_VerdictState ==
  pc = "done" =>
     /\ forward_stable <=> RLt(RAbs(GrowthIn), One)
     /\ RAbs(GrowthIn) = One => ~forward_stable
     /\ (lam = FromInt(-1) /\ T = FromInt(5) /\ N = 5) =>
           (h = One /\ RAbs(GrowthIn) = Zero /\ forward_stable)
     /\ (lam = FromInt(-3) /\ T = FromInt(5) /\ N = 5) =>
           (h = One /\ RAbs(GrowthIn) = FromInt(2) /\ ~forward_stable)

C7_StabilityVerdict ==
  /\ []C7_VerdictState
  /\ [][pc = "diagnostics" =>
          UNCHANGED <<x_backward, x_forward, x_central>>]_vars

C7_Witness ==
  /\ pc = "done" /\ Positive(T)
  /\ RAbs(GrowthIn) = One
  /\ lam # Zero
  /\ ~forward_stable

(* C8: for lambda < 0, T > 0, N >= 1 and x0 # 0 every x_backward[k],       *)
(* k in 1..N, is finite, has the sign of x0 and is strictly smaller in     *)
(* magnitude than x_backward[k-1].                                         *)
C8_BackwardMonotoneDecay ==
  (BackwardFinished /\ Negative(lam) /\ Positive(T) /\ N >= 1 /\ x0 # Zero) =>
     \A k \in 1..N :
        /\ IsFinite(At(x_backward, k))
        /\ RSign(At(x_backward, k)) = RSign(x0)
        /\ RLt(RAbs(At(x_backward, k)), RAbs(At(x_backward, k - 1)))

C8_Witness ==
  /\ BackwardFinished
  /\ Negative(lam) /\ Positive(T) /\ Negative(x0)
  /\ N = 10
  /\ Negative(At(x_backward, N))

(* C9: each of x_backward, x_forward, x_central is assigned index by       *)
(* index in the order 0, 1, 2, ..., each index exactly once; every loop    *)
(* iteration reads only indices assigned before it; and a finished         *)
(* trajectory has all of 0..N assigned, with nothing written afterwards.   *)
WrittenInOrder(wr) == \A k \in 1..Len(wr) : wr[k] = k - 1

ReadsAssigned(rd, wr, seeded) ==
  \A k \in 1..Len(rd) : rd[k] \subseteq {wr[j] : j \in 1..(seeded + k - 1)}

C9_SequentialFill ==
  /\ WrittenInOrder(wr_backward)
  /\ WrittenInOrder(wr_forward)
  /\ WrittenInOrder(wr_central)
  /\ ReadsAssigned(rd_backward, wr_backward, 1)
  /\ ReadsAssigned(rd_forward, wr_forward, 1)
  /\ ReadsAssigned(rd_central, wr_central, 2)
  /\ BackwardFinished => (Len(wr_backward) = N + 1 /\ Len(rd_backward) = N)
  /\ ForwardFinished => (Len(wr_forward) = N + 1 /\ Len(rd_forward) = N)
  /\ CentralFinished => (Len(wr_central) = N + 1 /\ Len(rd_central) = N - 1)

C9_Witness ==
  /\ pc = "done" /\ Positive(T)
  /\ N = 10
  /\ Len(wr_backward) = 11 /\ Len(wr_forward) = 11 /\ Len(wr_central) = 11
  /\ rd_central[9] = {8, 9}

(* C10: for T > 0, if forward_stable then |x_forward[k+1]| <=              *)
(* |x_forward[k]| for every k in 0..N-1, strictly when x_forward[k] # 0;    *)
(* if not forward_stable then |x_forward[k+1]| >= |x_forward[k]|.           *)
C10_VerdictMatchesTrajectory ==
  (pc = "done" /\ Positive(T)) =>
     IF forward_stable
     THEN \A k \in 0..(N - 1) :
            /\ RLe(RAbs(At(x_forward, k + 1)), RAbs(At(x_forward, k)))
            /\ At(x_forward, k) # Zero =>
                  RLt(RAbs(At(x_forward, k + 1)), RAbs(At(x_forward, k)))
     ELSE \A k \in 0..(N - 1) :
            RLe(RAbs(At(x_forward, k)), RAbs(At(x_forward, k + 1)))

C10_Witness ==
  /\ pc = "done" /\ Positive(T)
  /\ forward_stable
  /\ At(x_forward, N) # Zero
  /\ Negative(At(x_forward, 1)) # Negative(At(x_forward, 0))

(* C3: on a valid grid (T > 0) the finished backward trajectory satisfies  *)
(* x_backward[k]*(1 - h*lambda) = x_backward[k-1] for k in 1..N, except    *)
(* that at a singular step (1 - h*lambda = 0) an error is signalled or the *)
(* entry is the not-a-number marker.                                       *)
C3_BackwardRecurrence ==
  (BackwardFinished /\ Positive(T)) =>
     \A k \in 1..N :
        IF DenomIn = Zero
        THEN pc = "SingularStepError" \/ IsNaN(At(x_backward, k))
        ELSE REq(RMul(At(x_backward, k), DenomIn), At(x_backward, k - 1))

(* C5: when T > 0 and h*lambda = 1 the backward scheme signals SingularStepError or  *)
(* marks the triggering index and every later one not-a-number; it never   *)
(* divides by the vanishing denominator and never delivers an infinity.    *)
C5_SingularStepSignalled ==
  (Positive(T) /\ RMul(hIn, lam) = One) =>
     \/ pc = "SingularStepError"
     \/ \A k \in Range(wr_backward) \ {0} : IsNaN(At(x_backward, k))

(* C6: when T <= 0 or N <= 0 the run is rejected with InvalidGridError     *)
(* before h is used and before any recurrence makes a step; no trajectory  *)
(* is produced.                                                            *)
C6_InvalidGridRejected ==
  (RLe(T, Zero) \/ N <= 0) =>
     \/ pc = "InvalidGridError"
     \/ /\ pc = "grid"
        /\ h = <<>>
        /\ x_exact = <<>> /\ x_backward = <<>>
        /\ x_forward = <<>> /\ x_central = <<>>
        /\ wr_backward = <<>> /\ wr_forward = <<>> /\ wr_central = <<>>

====
